---- MODULE Spec2Model ----
(***************************************************************************)
(* A model of auto_slideshow.py: the timing schedule, the frame-emission   *)
(* loop of create_slideshow, main's error handling, and the geometry of    *)
(* the wipe-left and zoom transitions of apply_transition.                 *)
(*                                                                         *)
(* The program computes its schedule with Python floats (IEEE-754 binary64 *)
(* values, round-to-nearest-even).  The model computes the same values     *)
(* bit for bit: a float is a sign and an exact dyadic magnitude n / 2^s,  *)
(* n an arbitrary-precision natural number kept as a little-endian         *)
(* sequence of limbs, and every operation rounds its exact result to      *)
(* Precision significant bits.                                             *)
(***************************************************************************)
EXTENDS Integers, Sequences, FiniteSets, TLC

\* ------------------------------------------------------------------------
\* Arbitrary-precision naturals: little-endian limbs, no leading zero limb,
\* zero is the empty sequence.
\* ------------------------------------------------------------------------

\* Bits per limb of the model's naturals (any value up to 16 gives the same
\* numbers: every limb product stays below 2^31).
LimbBits == 15

Base == 2^LimbBits

\* Significant bits of a Python float.
Precision == 53

RECURSIVE Norm(_)
Norm(a) ==
    IF a = <<>> THEN <<>>
    ELSE IF a[Len(a)] = 0 THEN Norm(SubSeq(a, 1, Len(a) - 1))
    ELSE a

RECURSIVE NatOf(_)
NatOf(k) == IF k = 0 THEN <<>> ELSE <<k % Base>> \o NatOf(k \div Base)

RECURSIVE IntOf(_)
IntOf(a) == IF a = <<>> THEN 0 ELSE Head(a) + Base * IntOf(Tail(a))

RECURSIVE MulCarry(_, _, _)
MulCarry(a, c, carry) ==
    IF a = <<>> THEN NatOf(carry)
    ELSE LET t == Head(a) * c + carry
         IN  <<t % Base>> \o MulCarry(Tail(a), c, t \div Base)

MulSmall(a, c) == IF c = 0 THEN <<>> ELSE MulCarry(a, c, 0)

\* Quotient and remainder of a by a small divisor c > 0.
RECURSIVE DivSmall(_, _)
DivSmall(a, c) ==
    IF a = <<>> THEN [q |-> <<>>, r |-> 0]
    ELSE LET hi == DivSmall(Tail(a), c)
             t  == hi.r * Base + Head(a)
         IN  [q |-> IF hi.q = <<>> /\ t \div c = 0 THEN <<>>
                    ELSE <<t \div c>> \o hi.q,
              r |-> t % c]

RECURSIVE AddCarry(_, _, _)
AddCarry(a, b, carry) ==
    IF a = <<>> /\ b = <<>> THEN NatOf(carry)
    ELSE LET x == IF a = <<>> THEN 0 ELSE Head(a)
             y == IF b = <<>> THEN 0 ELSE Head(b)
             t == x + y + carry
         IN  <<t % Base>> \o AddCarry(IF a = <<>> THEN <<>> ELSE Tail(a),
                                      IF b = <<>> THEN <<>> ELSE Tail(b),
                                      t \div Base)

Add(a, b) == AddCarry(a, b, 0)

\* a - b for a >= b, before the leading zero limbs are dropped.
RECURSIVE SubBorrow(_, _, _)
SubBorrow(a, b, borrow) ==
    IF a = <<>> THEN <<>>
    ELSE LET y == IF b = <<>> THEN 0 ELSE Head(b)
             t == Head(a) - y - borrow
         IN  <<t % Base>> \o SubBorrow(Tail(a),
                                       IF b = <<>> THEN <<>> ELSE Tail(b),
                                       IF t < 0 THEN 1 ELSE 0)

Sub(a, b) == Norm(SubBorrow(a, b, 0))

\* -1, 0 or 1 as a < b, a = b or a > b.
RECURSIVE Cmp(_, _)
Cmp(a, b) ==
    IF Len(a) # Len(b) THEN (IF Len(a) < Len(b) THEN -1 ELSE 1)
    ELSE IF a = <<>> THEN 0
    ELSE IF a[Len(a)] # b[Len(b)] THEN (IF a[Len(a)] < b[Len(b)] THEN -1 ELSE 1)
    ELSE Cmp(SubSeq(a, 1, Len(a) - 1), SubSeq(b, 1, Len(b) - 1))

RECURSIVE IntBitLen(_)
IntBitLen(k) == IF k = 0 THEN 0 ELSE 1 + IntBitLen(k \div 2)

BitLen(a) == IF a = <<>> THEN 0 ELSE (Len(a) - 1) * LimbBits + IntBitLen(a[Len(a)])

RECURSIVE ZeroLimbs(_)
ZeroLimbs(k) == IF k = 0 THEN <<>> ELSE <<0>> \o ZeroLimbs(k - 1)

ShiftLeft(a, k) ==
    IF a = <<>> THEN <<>>
    ELSE ZeroLimbs(k \div LimbBits) \o MulSmall(a, 2^(k % LimbBits))

ShiftRight(a, k) ==
    LET drop == k \div LimbBits
    IN  IF drop >= Len(a) THEN <<>>
        ELSE DivSmall(SubSeq(a, drop + 1, Len(a)), 2^(k % LimbBits)).q

IsOdd(a) == a # <<>> /\ Head(a) % 2 = 1

\* ------------------------------------------------------------------------
\* Python floats.  [neg, n, s] is the value (-1)^neg * n / 2^s, with n odd
\* or s = 0, so that equal values are equal records.
\* ------------------------------------------------------------------------

RECURSIVE Canon(_, _, _)
Canon(neg, n, s) ==
    IF n = <<>> THEN [neg |-> FALSE, n |-> <<>>, s |-> 0]
    ELSE IF s > 0 /\ ~IsOdd(n) THEN Canon(neg, DivSmall(n, 2).q, s - 1)
    ELSE [neg |-> neg, n |-> n, s |-> s]

\* The float nearest to n / 2^s (plus a positive amount below one unit of n
\* when sticky), ties to even.
Round(neg, n, s, sticky) ==
    LET bl == BitLen(n)
    IN  IF bl <= Precision THEN Canon(neg, n, s)
        ELSE LET k    == bl - Precision
                 q    == ShiftRight(n, k)
                 r    == Sub(n, ShiftLeft(q, k))
                 half == ShiftLeft(<<1>>, k - 1)
                 c    == Cmp(r, half)
                 up   == c > 0 \/ (c = 0 /\ (sticky \/ IsOdd(q)))
             IN  Canon(neg, IF up THEN Add(q, <<1>>) ELSE q, s - k)

\* float(k) of a small non-negative int.
FloatOfInt(k) == Canon(FALSE, NatOf(k), 0)

\* Extra quotient bits a division produces before it is rounded.
GuardBits == Precision + LimbBits

\* x / c for a float x and an int c > 0.
FDivInt(x, c) ==
    LET d == DivSmall(ShiftLeft(x.n, GuardBits), c)
    IN  Round(x.neg, d.q, x.s + GuardBits, d.r # 0)

\* x * c for a float x and an int c >= 0.
FMulInt(x, c) == Round(x.neg, MulSmall(x.n, c), x.s, FALSE)

\* x - y for floats x, y >= 0.
FSub(x, y) ==
    LET s == IF x.s > y.s THEN x.s ELSE y.s
        a == ShiftLeft(x.n, s - x.s)
        b == ShiftLeft(y.n, s - y.s)
    IN  IF Cmp(a, b) >= 0 THEN Round(FALSE, Sub(a, b), s, FALSE)
        ELSE Round(TRUE, Sub(b, a), s, FALSE)

\* x < y for floats x, y >= 0.
FLess(x, y) == FSub(x, y).neg

\* x <= 0.
FNonPositive(x) == x.neg \/ x.n = <<>>

\* int(x) for a float x >= 0.
Trunc(x) == IntOf(ShiftRight(x.n, x.s))

\* float("num/10^k") of a decimal string: the float nearest to num / den.
FloatOfDecimal(num, den) == FDivInt(FloatOfInt(num), den)

\* TRANSITIONS: the effect numbers of the known transition names.
TRANSITIONS ==
    [fade |-> 0, wipe_left |-> 1, wipe_right |-> 2, wipe_up |-> 3, wipe_down |-> 4,
     zoom_in |-> 5, zoom_out |-> 6, slide_left |-> 7, slide_right |-> 8]

\* Python's None, where a variable holds an index or effect number otherwise.
None == -1

\* ------------------------------------------------------------------------
\* apply_transition: the wipe-left composite and the zoom placement.
\* ------------------------------------------------------------------------

\* Largest canvas and longest transition the engine is run on.
MaxWidth == 24

MaxHeight == 12

MaxSteps == 3

\* max(scaled_w, 10)
MinScaled == 10

Min(a, b) == IF a < b THEN a ELSE b

Max(a, b) == IF a > b THEN a ELSE b

\* A frame: an array of shape (h, w) whose pixel [r, c] records its origin.
MakeFrame(name, h, w) ==
    [h |-> h, w |-> w, px |-> [rc \in (0..(h - 1)) \X (0..(w - 1)) |-> <<name, rc[1], rc[2]>>]]

\* A slice bound idx of an axis of the given size, as Python resolves it.
SliceBound(idx, size) == IF idx < 0 THEN Max(0, idx + size) ELSE Min(idx, size)

\* len(range(size)[lo:hi])
SliceLen(lo, hi, size) == Max(0, SliceBound(hi, size) - SliceBound(lo, size))

\* The cut of wipe-right taken for wipe-left: int(w * (1 - progress)).
WipeRightCut(w, progress) == Trunc(FMulInt(FSub(FloatOfInt(1), progress), w))

\* cut = int(w * progress)
WipeLeftCut(w, progress) == Trunc(FMulInt(progress, w))

\* result = prev_frame.copy(); result[:, :cut] = next_frame[:, :cut]
WipeLeft(prev, next, progress) ==
    LET cut == WipeLeftCut(prev.w, progress)
        n   == SliceLen(0, cut, prev.w)
    IN  [prev EXCEPT !.px = [rc \in DOMAIN prev.px |->
                               IF rc[2] < n THEN next.px[rc] ELSE prev.px[rc]]]

\* zoom_factor = progress, at least 0.1 (zoom in).
ZoomInFactor(progress) ==
    IF FLess(progress, FloatOfDecimal(1, 10)) THEN FloatOfDecimal(1, 10) ELSE progress

\* zoom_factor = 1 - progress, at least 0.1 (zoom out).
ZoomOutFactor(progress) ==
    LET z == FSub(FloatOfInt(1), progress)
    IN  IF FLess(z, FloatOfDecimal(1, 10)) THEN FloatOfDecimal(1, 10) ELSE z

\* The end of the placement without the clip to the canvas.
ZoomEndUnclipped(start, scaled, size) == start + scaled

\* end_x = min(w, start_x + scaled_w)
ZoomEnd(start, scaled, size) == Min(size, start + scaled)

\* The placement of the scaled image along one axis of the given size.
ZoomAxis(size, zoom_factor) ==
    LET center == size \div 2
        scaled == Max(Trunc(FMulInt(zoom_factor, size)), MinScaled)
        start  == Max(0, center - scaled \div 2)
        end    == ZoomEnd(start, scaled, size)
    IN  [scaled |-> scaled, start |-> start, end |-> end,
         scaled_start |-> IF start = 0 THEN (scaled - (end - start)) \div 2 ELSE 0]

ZoomPlacement(h, w, zoom_factor) ==
    [x |-> ZoomAxis(w, zoom_factor), y |-> ZoomAxis(h, zoom_factor)]

\* The lengths, along one axis, of result[start:end] and of
\* scaled[scaled_start : scaled_start + (end - start)].
DestLen(a, size) == SliceLen(a.start, a.end, size)

SourceLen(a) == SliceLen(a.scaled_start, a.scaled_start + (a.end - a.start), a.scaled)

\* The slice assignment raises ValueError unless the source broadcasts to
\* the destination: along each axis the lengths agree or the source's is 1.
AssignmentRaises(p, h, w) ==
    \/ (SourceLen(p.x) # DestLen(p.x, w) /\ SourceLen(p.x) # 1)
    \/ (SourceLen(p.y) # DestLen(p.y, h) /\ SourceLen(p.y) # 1)

NoFrame == [h |-> 0, w |-> 0, px |-> <<>>]

NoPlacement == [x |-> <<>>, y |-> <<>>]

VARIABLES
    prev_frame,           \* apply_transition's arguments
    next_frame,
    effect,               \* transition_type
    steps,                \* the caller's transition_frames
    step,                 \* the caller's j: progress = step / steps
    composite,            \* the frame the last call returned (wipe-left)
    cuts,                 \* the cuts of the wipe-left calls so far
    placement,            \* the placement the last zoom call computed
    fell_back             \* the last zoom call took the fade fallback

engine == <<prev_frame, next_frame, effect, steps, step, composite, cuts, placement, fell_back>>

EngineIdle ==
    /\ prev_frame = NoFrame
    /\ next_frame = NoFrame
    /\ effect = None
    /\ steps = 0
    /\ step = 0
    /\ composite = NoFrame
    /\ cuts = <<>>
    /\ placement = NoPlacement
    /\ fell_back = FALSE

\* ------------------------------------------------------------------------
\* The program: main and create_slideshow.
\* ------------------------------------------------------------------------

\* Most image files a run is given.
MaxImages == 4

\* video_duration and transition_duration of the configuration file, as
\* decimal strings with one digit after the point, in tenths of a second.
VideoDurations == {5, 9, 20, 46}

TransitionDurations == {0, 3, 10, 14}

FrameRates == {1, 10, 25}

TransitionTypes == {"random", "wipe_left", "sparkle"}

\* random.randint(0, 8)
RandomTransitions == 0..8

VARIABLES
    image_files,          \* the sorted paths: image_files[k] is whether cv2.imread decodes path k-1
    config,               \* the configuration section, as read
    sink_openable,        \* whether cv2.VideoWriter can open the output file
    pc,                   \* the position in main / create_slideshow
    transition_duration,  \* float
    video_duration,       \* float
    frame_rate,           \* int
    transition_type,      \* the fixed effect number, or None in random mode
    image_duration,       \* float
    total_frames,
    frame_count,
    frames_per_image,
    transition_frames,
    curr_transition,
    i,                    \* index of the image of the current loop iteration
    j,                    \* counter of the current frame loop
    prev_image,           \* index of the image held as prev_image, or None
    out,                  \* the video writer: "none", "open" or "released"
    opened,               \* how many times a writer was opened
    written,              \* the frames written to the writer, in order
    skipped,              \* frame-loop iterations whose write the budget guard suppressed
    skip_warnings,        \* "Warning: Could not read image" lines printed
    success_reported,     \* "Slideshow created successfully" was printed
    error,                \* the exception main caught, or "none"
    result                \* main's return value, or None while it runs

build ==
    <<image_files, config, sink_openable, pc, transition_duration, video_duration,
      frame_rate, transition_type, image_duration, total_frames, frame_count,
      frames_per_image, transition_frames, curr_transition, i, j, prev_image, out,
      opened, written, skipped, skip_warnings, success_reported, error, result>>

vars ==
    <<prev_frame, next_frame, effect, steps, step, composite, cuts, placement, fell_back,
      image_files, config, sink_openable, pc, transition_duration, video_duration,
      frame_rate, transition_type, image_duration, total_frames, frame_count,
      frames_per_image, transition_frames, curr_transition, i, j, prev_image, out,
      opened, written, skipped, skip_warnings, success_reported, error, result>>

inputs == <<image_files, config, sink_openable>>

schedule == <<transition_duration, video_duration, frame_rate, transition_type, image_duration>>

num_images == Len(image_files)

\* cv2.imread(image_files[k]) is not None
Readable(k) == image_files[k + 1]

\* The state of main before its first step.
BuildStart ==
    /\ pc = "main"
    /\ transition_duration = FloatOfInt(0)
    /\ video_duration = FloatOfInt(0)
    /\ frame_rate = 0
    /\ transition_type = None
    /\ image_duration = FloatOfInt(0)
    /\ total_frames = 0
    /\ frame_count = 0
    /\ frames_per_image = 0
    /\ transition_frames = 0
    /\ curr_transition = None
    /\ i = 0
    /\ j = 0
    /\ prev_image = None
    /\ out = "none"
    /\ opened = 0
    /\ written = <<>>
    /\ skipped = 0
    /\ skip_warnings = 0
    /\ success_reported = FALSE
    /\ error = "none"
    /\ result = None

\* A run of the program: any folder of up to MaxImages files, any
\* configuration, a writer that opens or not.
Init ==
    /\ EngineIdle
    /\ image_files \in UNION {[1..n -> BOOLEAN] : n \in 0..MaxImages}
    /\ config \in [video_duration : VideoDurations,
                   transition_duration : TransitionDurations,
                   frame_rate : FrameRates,
                   transition_type : TransitionTypes]
    /\ sink_openable \in BOOLEAN
    /\ BuildStart

\* An exception raised inside main's try block: main prints it and returns 1.
\* Nothing on this path releases the writer.
Raise(e) ==
    /\ pc' = "exit"
    /\ error' = e
    /\ result' = 1

\* main: get_image_files raises on an empty folder; with fewer than 2 files
\* main prints an error and returns 1 itself (the same outcome as a caught
\* exception); otherwise create_slideshow is called.
GetImageFiles ==
    /\ pc = "main"
    /\ IF num_images = 0 THEN Raise("no_image_files")
       ELSE IF num_images < 2 THEN Raise("too_few_images")
       ELSE pc' = "schedule" /\ UNCHANGED <<error, result>>
    /\ UNCHANGED <<inputs, engine, schedule, total_frames, frame_count, frames_per_image,
                   transition_frames, curr_transition, i, j, prev_image, out, opened,
                   written, skipped, skip_warnings, success_reported>>

\* The transition type the configuration selects: None for "random", the
\* effect number of a known name, fade (0) for an unknown one.
TransitionTypeOf(name) ==
    IF name = "random" THEN None
    ELSE IF name \in DOMAIN TRANSITIONS THEN TRANSITIONS[name]
    ELSE 0

TotalTransitionTime(n, td) == FMulInt(td, n - 1)

RemainingTime(n, vd, td) == FSub(vd, TotalTransitionTime(n, td))

ImageDuration(n, vd, td) == FDivInt(RemainingTime(n, vd, td), n)

\* create_slideshow up to the feasibility check: parse the configuration and
\* compute the timing.
ComputeSchedule ==
    /\ pc = "schedule"
    /\ LET td == FloatOfDecimal(config.transition_duration, 10)
           vd == FloatOfDecimal(config.video_duration, 10)
       IN  /\ transition_duration' = td
           /\ video_duration' = vd
           /\ frame_rate' = config.frame_rate
           /\ transition_type' = TransitionTypeOf(config.transition_type)
           /\ IF FNonPositive(RemainingTime(num_images, vd, td))
              THEN /\ Raise("transition_time_exceeds_video_duration")
                   /\ UNCHANGED image_duration
              ELSE /\ image_duration' = ImageDuration(num_images, vd, td)
                   /\ pc' = "first_image"
                   /\ UNCHANGED <<error, result>>
    /\ UNCHANGED <<inputs, engine, total_frames, frame_count, frames_per_image,
                   transition_frames, curr_transition, i, j, prev_image, out, opened,
                   written, skipped, skip_warnings, success_reported>>

\* Open the first image to get the dimensions; an unreadable first image
\* raises.
OpenFirstImage ==
    /\ pc = "first_image"
    /\ IF Readable(0) THEN pc' = "open_writer" /\ UNCHANGED <<error, result>>
       ELSE Raise("could_not_read_first_image")
    /\ UNCHANGED <<inputs, engine, schedule, total_frames, frame_count, frames_per_image,
                   transition_frames, curr_transition, i, j, prev_image, out, opened,
                   written, skipped, skip_warnings, success_reported>>

TotalFrames(vd, fr) == Trunc(FMulInt(vd, fr))

\* Create the video writer, and initialise the loop.
OpenWriter ==
    /\ pc = "open_writer"
    /\ IF sink_openable
       THEN /\ out' = "open"
            /\ opened' = opened + 1
            /\ prev_image' = None
            /\ frame_count' = 0
            /\ total_frames' = TotalFrames(video_duration, frame_rate)
            /\ i' = 0
            /\ pc' = "next_image"
            /\ UNCHANGED <<error, result>>
       ELSE /\ Raise("could_not_open_output")
            /\ UNCHANGED <<out, opened, prev_image, frame_count, total_frames, i>>
    /\ UNCHANGED <<inputs, engine, schedule, frames_per_image, transition_frames,
                   curr_transition, j, written, skipped, skip_warnings, success_reported>>

FramesPerImage(idur, fr) == Trunc(FMulInt(idur, fr))

TransitionFrames(td, fr) == Trunc(FMulInt(td, fr))

\* The head of "for i, img_path in enumerate(image_files)": read the image;
\* an unreadable one is skipped with a warning; the first starts its display
\* frames, a later one its transition.
ReadImage ==
    /\ pc = "next_image"
    /\ i < num_images
    /\ IF ~Readable(i)
       THEN /\ skip_warnings' = skip_warnings + 1
            /\ i' = i + 1
            /\ UNCHANGED <<pc, j, frames_per_image, transition_frames, curr_transition>>
       ELSE IF i = 0
       THEN /\ frames_per_image' = FramesPerImage(image_duration, frame_rate)
            /\ j' = 0
            /\ pc' = "display"
            /\ UNCHANGED <<i, skip_warnings, transition_frames, curr_transition>>
       ELSE /\ curr_transition' \in (IF transition_type = None THEN RandomTransitions
                                     ELSE {transition_type})
            /\ transition_frames' = TransitionFrames(transition_duration, frame_rate)
            /\ j' = 0
            /\ pc' = "transition"
            /\ UNCHANGED <<i, skip_warnings, frames_per_image>>
    /\ UNCHANGED <<inputs, engine, schedule, total_frames, frame_count, prev_image, out, opened,
                   written, skipped, success_reported, error, result>>

\* The budget guard off by one.
CanWriteOffByOne(count, total) == count <= total

\* if frame_count < total_frames
CanWrite(count, total) == count < total

\* out.write(frame); frame_count += 1, under the budget guard.
WriteFrame(frame) ==
    IF CanWrite(frame_count, total_frames)
    THEN /\ written' = Append(written, frame)
         /\ frame_count' = frame_count + 1
         /\ UNCHANGED skipped
    ELSE /\ skipped' = skipped + 1
         /\ UNCHANGED <<written, frame_count>>

\* One iteration of "for j in range(transition_frames)".  The frame written
\* is apply_transition(prev_image, curr_img, curr_transition, j /
\* transition_frames); the record keeps the two images and the step.
TransitionFrame ==
    /\ pc = "transition"
    /\ j < transition_frames
    /\ WriteFrame([kind |-> "transition", prev |-> prev_image, next |-> i, step |-> j])
    /\ j' = j + 1
    /\ UNCHANGED <<inputs, engine, schedule, pc, total_frames, frames_per_image,
                   transition_frames, curr_transition, i, prev_image, out, opened,
                   skip_warnings, success_reported, error, result>>

\* The transition loop is over: the display frames of the image follow.
TransitionDone ==
    /\ pc = "transition"
    /\ j = transition_frames
    /\ frames_per_image' = FramesPerImage(image_duration, frame_rate)
    /\ j' = 0
    /\ pc' = "display"
    /\ UNCHANGED <<inputs, engine, schedule, total_frames, frame_count, transition_frames,
                   curr_transition, i, prev_image, out, opened, written, skipped,
                   skip_warnings, success_reported, error, result>>

\* One iteration of "for _ in range(frames_per_image)".
DisplayFrame ==
    /\ pc = "display"
    /\ j < frames_per_image
    /\ WriteFrame([kind |-> "display", image |-> i])
    /\ j' = j + 1
    /\ UNCHANGED <<inputs, engine, schedule, pc, total_frames, frames_per_image,
                   transition_frames, curr_transition, i, prev_image, out, opened,
                   skip_warnings, success_reported, error, result>>

\* prev_image assigned only while it is still None.
NextPrevOnlyFirst(prev, curr) == IF prev = None THEN curr ELSE prev

\* prev_image = curr_img
NextPrev(prev, curr) == curr

\* The end of a loop iteration: update prev_image and print the progress,
\* frame_count / total_frames, which raises ZeroDivisionError when
\* total_frames is 0.
EndIteration ==
    /\ pc = "display"
    /\ j = frames_per_image
    /\ prev_image' = NextPrev(prev_image, i)
    /\ IF total_frames = 0
       THEN Raise("division_by_zero") /\ UNCHANGED i
       ELSE i' = i + 1 /\ pc' = "next_image" /\ UNCHANGED <<error, result>>
    /\ UNCHANGED <<inputs, engine, schedule, total_frames, frame_count, frames_per_image,
                   transition_frames, curr_transition, j, out, opened, written, skipped,
                   skip_warnings, success_reported>>

\* After the loop: release the writer, report success; main returns 0.
Release ==
    /\ pc = "next_image"
    /\ i = num_images
    /\ out' = "released"
    /\ success_reported' = TRUE
    /\ result' = 0
    /\ pc' = "exit"
    /\ UNCHANGED <<inputs, engine, schedule, total_frames, frame_count, frames_per_image,
                   transition_frames, curr_transition, i, j, prev_image, opened, written,
                   skipped, skip_warnings, error>>

\* ------------------------------------------------------------------------
\* Properties of a run.
\* ------------------------------------------------------------------------

Terminated == pc = "exit"

\* create_slideshow got past the feasibility check.
Feasible == pc \in {"first_image", "open_writer", "next_image", "transition", "display"}
            \/ (pc = "exit" /\ error \notin {"no_image_files", "too_few_images",
                                            "transition_time_exceeds_video_duration"})

ScheduleFailed == pc = "exit" /\ error = "transition_time_exceeds_video_duration"

UnreadableImages == {k \in 0..(num_images - 1) : ~Readable(k)}

UsableImages == {k \in 0..(num_images - 1) : Readable(k)}

\* The image a frame shows or leads to.
Target(f) == IF f.kind = "transition" THEN f.next ELSE f.image

LatestReadableBefore(k) ==
    CHOOSE m \in 0..(k - 1) :
        Readable(m) /\ \A m2 \in (m + 1)..(k - 1) : ~Readable(m2)

\* C1: the number of frames written never exceeds total_frames =
\* int(video_duration * frame_rate), and once the count has reached the
\* budget no later step of the build writes a frame.
C1_BudgetNeverExceeded ==
    [][/\ Len(written') <= total_frames'
       /\ frame_count' = Len(written')
       /\ (out = "open" /\ Len(written) >= total_frames => written' = written)]_vars

\* A build that reached its budget and then ran a frame step that wrote nothing.
C1_Witness == out = "open" /\ total_frames > 0 /\ Len(written) = total_frames /\ skipped > 0

\* C2: the schedule computation fails iff
\* transition_duration * (num_images - 1) >= video_duration (the configured
\* values, in tenths), and otherwise yields image_duration > 0.
C2_FeasibilityIff ==
    (Feasible \/ ScheduleFailed) =>
        /\ ScheduleFailed <=>
             config.transition_duration * (num_images - 1) >= config.video_duration
        /\ (Feasible => ~FNonPositive(image_duration))

\* C3: a build over N >= 3 images of which exactly one, at any position,
\* fails to decode ends Finalized with a warning logged, and writes frames
\* of the other N-1 images only: their display segments and the N-2
\* transitions between them.  (Stated for runs whose schedule is feasible,
\* whose writer opens and which do not hit the progress division.)
C3_OneFailureIsSkipped ==
    (/\ Terminated
     /\ num_images >= 3
     /\ Cardinality(UnreadableImages) = 1
     /\ sink_openable
     /\ ~ScheduleFailed
     /\ error # "division_by_zero")
    => /\ result = 0
       /\ out = "released"
       /\ skip_warnings = 1
       /\ \A k \in 1..Len(written) :
             /\ Readable(Target(written[k]))
             /\ written[k].kind = "transition" => Readable(written[k].prev)
       /\ frame_count + skipped =
             (num_images - 1) * FramesPerImage(image_duration, frame_rate)
             + (num_images - 2) * TransitionFrames(transition_duration, frame_rate)

\* C4: the writer is opened at most once, and no run ends with it still open.
C4_SinkReleased == opened <= 1 /\ (Terminated => out # "open")

\* C5: a run with fewer than 2 usable images ends in an error and never
\* reports a successfully created slideshow.
C5_InsufficientImagesFatal ==
    (Terminated /\ Cardinality(UsableImages) < 2) => (result = 1 /\ ~success_reported)

\* C6: for every feasible schedule (num_images >= 2, frame_rate >= 1,
\* transition_duration >= 0, transition_duration * (num_images - 1) <
\* video_duration), frames_per_image * num_images
\* + transition_frames * (num_images - 1) <= total_frames.
C6_SegmentsFitBudget ==
    (/\ pc = "first_image"
     /\ config.transition_duration * (num_images - 1) < config.video_duration)
    => FramesPerImage(image_duration, frame_rate) * num_images
       + TransitionFrames(transition_duration, frame_rate) * (num_images - 1)
       <= TotalFrames(video_duration, frame_rate)

\* C8: the written stream follows input order: a transition frame into image
\* i has the latest readable image before i as prev (the image of the display
\* frame just before the transition) and image i as next; the transition
\* frames into image i come before its display frames; an unreadable image is
\* never prev and has no frame.
C8_StreamFollowsInputOrder ==
    \A k \in 1..Len(written) :
        LET f == written[k]
        IN  /\ Readable(Target(f))
            /\ f.kind = "transition" =>
                 /\ f.next > 0
                 /\ f.prev = LatestReadableBefore(f.next)
                 /\ (k > 1 /\ written[k - 1].kind = "display"
                        => written[k - 1].image = f.prev)
            /\ k < Len(written) =>
                 LET g == written[k + 1]
                 IN  /\ Target(g) >= Target(f)
                     /\ (f.kind = "display" /\ g.kind = "transition"
                            => g.next > f.image)
            /\ (out = "open" /\ prev_image # None) => Readable(prev_image)

\* A transition frame written across a skipped image.
C8_Witness ==
    \E k \in 1..Len(written) :
        /\ written[k].kind = "transition"
        /\ written[k].next - written[k].prev >= 2
        /\ k < Len(written)
        /\ written[k + 1].kind = "display"

\* C9: when the schedule is feasible and every image decodes, the budget
\* guard never truncates: the build ends with frame_count = num_images *
\* frames_per_image + (num_images - 1) * transition_frames, and no write was
\* suppressed.
C9_CapNeverTruncates ==
    (/\ Terminated
     /\ result = 0
     /\ UnreadableImages = {})
    => /\ skipped = 0
       /\ frame_count = num_images * FramesPerImage(image_duration, frame_rate)
                        + (num_images - 1) * TransitionFrames(transition_duration, frame_rate)

Next ==
    \/ GetImageFiles
    \/ ComputeSchedule
    \/ OpenFirstImage
    \/ OpenWriter
    \/ ReadImage
    \/ TransitionFrame
    \/ TransitionDone
    \/ DisplayFrame
    \/ EndIteration
    \/ Release

Spec == Init /\ [][Next]_vars

\* ------------------------------------------------------------------------
\* The transition engine on its own: apply_transition called, for one pair
\* of frames, with progress = step / steps for successive steps.
\* ------------------------------------------------------------------------

\* The effects the engine is run with: wipe_left, zoom_in, zoom_out.
EngineEffects == {TRANSITIONS.wipe_left, TRANSITIONS.zoom_in, TRANSITIONS.zoom_out}

EngineInit ==
    /\ \E h \in 1..MaxHeight, w \in 1..MaxWidth :
          /\ prev_frame = MakeFrame("prev", h, w)
          /\ next_frame = MakeFrame("next", h, w)
    /\ effect \in EngineEffects
    /\ steps \in 1..MaxSteps
    /\ step = 0
    /\ composite = NoFrame
    /\ cuts = <<>>
    /\ placement = NoPlacement
    /\ fell_back = FALSE
    /\ image_files = <<>>
    /\ config = [video_duration |-> 590, transition_duration |-> 5, frame_rate |-> 25,
                 transition_type |-> "random"]
    /\ sink_openable = TRUE
    /\ BuildStart

\* progress = j / transition_frames
Progress(k, n) == FDivInt(FloatOfInt(k), n)

\* apply_transition(prev_frame, next_frame, 1, progress), for progress up to 1.
ApplyWipeLeft ==
    /\ effect = TRANSITIONS.wipe_left
    /\ step <= steps
    /\ composite' = WipeLeft(prev_frame, next_frame, Progress(step, steps))
    /\ cuts' = Append(cuts, WipeLeftCut(prev_frame.w, Progress(step, steps)))
    /\ step' = step + 1
    /\ UNCHANGED <<prev_frame, next_frame, effect, steps, placement, fell_back, build>>

\* apply_transition(prev_frame, next_frame, 5, progress)
ApplyZoomIn ==
    /\ effect = TRANSITIONS.zoom_in
    /\ step < steps
    /\ LET p == ZoomPlacement(prev_frame.h, prev_frame.w, ZoomInFactor(Progress(step, steps)))
       IN  /\ placement' = p
           /\ fell_back' = AssignmentRaises(p, prev_frame.h, prev_frame.w)
    /\ step' = step + 1
    /\ UNCHANGED <<prev_frame, next_frame, effect, steps, composite, cuts, build>>

\* apply_transition(prev_frame, next_frame, 6, progress)
ApplyZoomOut ==
    /\ effect = TRANSITIONS.zoom_out
    /\ step < steps
    /\ LET p == ZoomPlacement(prev_frame.h, prev_frame.w, ZoomOutFactor(Progress(step, steps)))
       IN  /\ placement' = p
           /\ fell_back' = AssignmentRaises(p, prev_frame.h, prev_frame.w)
    /\ step' = step + 1
    /\ UNCHANGED <<prev_frame, next_frame, effect, steps, composite, cuts, build>>

EngineNext ==
    \/ ApplyWipeLeft
    \/ ApplyZoomIn
    \/ ApplyZoomOut

SpecEngine == EngineInit /\ [][EngineNext]_vars

\* C7: the wipe-left composite of frames A and B of width w at progress p
\* takes columns [0, int(w * p)) from B and the other columns from A; it is A
\* at p = 0 and B at p = 1; the cut does not decrease as p grows; A and B are
\* not modified.
C7_WipeLeftComposite ==
    (effect = TRANSITIONS.wipe_left /\ step > 0) =>
        LET w   == prev_frame.w
            h   == prev_frame.h
            cut == cuts[step]
        IN  /\ Len(cuts) = step
            /\ cut = Trunc(FMulInt(Progress(step - 1, steps), w))
            /\ cut \in 0..w
            /\ composite.h = h /\ composite.w = w
            /\ \A r \in 0..(h - 1), c \in 0..(w - 1) :
                  composite.px[<<r, c>>] = IF c < cut THEN <<"next", r, c>> ELSE <<"prev", r, c>>
            /\ (step = 1 => composite = prev_frame)
            /\ (step = steps + 1 => composite = next_frame)
            /\ \A k \in 1..(step - 1) : cuts[k] <= cuts[k + 1]
            /\ prev_frame = MakeFrame("prev", h, w)
            /\ next_frame = MakeFrame("next", h, w)

\* A wipe-left composite strictly between the two frames.
C7_Witness ==
    /\ effect = TRANSITIONS.wipe_left
    /\ step > 1
    /\ cuts[step] > 0
    /\ cuts[step] < prev_frame.w
    /\ composite # prev_frame
    /\ composite # next_frame

\* C10: for zoom-in and zoom-out, on every canvas and at every progress
\* j / n with 0 <= j < n, the destination rectangle lies inside the canvas,
\* the source slice lies inside the scaled image and has the destination's
\* height and width, and the fade fallback is not taken.
C10_ZoomPlacementConsistent ==
    (effect \in {TRANSITIONS.zoom_in, TRANSITIONS.zoom_out} /\ step > 0) =>
        LET AxisOk(a, size) ==
                /\ 0 <= a.start /\ a.start <= a.end /\ a.end <= size
                /\ 0 <= a.scaled_start
                /\ a.scaled_start + (a.end - a.start) <= a.scaled
                /\ DestLen(a, size) = a.end - a.start
                /\ SourceLen(a) = a.end - a.start
        IN  /\ AxisOk(placement.x, prev_frame.w)
            /\ AxisOk(placement.y, prev_frame.h)
            /\ ~fell_back

\* A zoom whose scaled image is wider than the canvas and is clipped on
\* both sides, while it fits the canvas vertically.
C10_Witness ==
    /\ effect \in {TRANSITIONS.zoom_in, TRANSITIONS.zoom_out}
    /\ step > 0
    /\ placement.x.scaled > prev_frame.w
    /\ placement.x.scaled_start > 0
    /\ placement.y.scaled < prev_frame.h
    /\ placement.y.start > 0

====
